---- MODULE Spec2Model ----
(***************************************************************************)
(* Breathing-exercise timer: the host page (page.tsx, Home), the setup     *)
(* form (SetupForm) with its favorite kept in localStorage, and the        *)
(* session component BreathingExercise with its three effects (session     *)
(* countdown, phase timer, phase animation) and its audio fades.           *)
(*                                                                         *)
(* The specifications share the variables:                                 *)
(*   Spec         the session and its timers, started with any settings    *)
(*   FairSpec     the same with the timers running (weak fairness)         *)
(*   SpecPlay     the same with play attempts that may be rejected         *)
(*   SpecRestart  the same with a restart during the grace delay           *)
(*   SpecForm     the setup form, the storage and the host page            *)
(*                                                                         *)
(* Browser timers are modelled with explicit remaining times.  One unit of *)
(* model time is 10/3 ms, the largest unit in which every delay of the     *)
(* component (1000 ms, 1000/30 ms, 200 ms, 200/20 ms) is a whole number.   *)
(* Timers that are due at the same instant fire in any order.              *)
(*                                                                         *)
(* A React re-render with its effect cleanups and effect runs is part of   *)
(* the step of the callback that caused it.  A state setter called for a   *)
(* component that is no longer mounted changes nothing.  A state updater   *)
(* function is called once per update, and the audio refs hold their       *)
(* elements whenever the component's code reads them.  A cue that plays    *)
(* goes on playing until the code pauses it.                               *)
(***************************************************************************)
EXTENDS Integers, FiniteSets, Sequences, TLC

VARIABLES
    settings,           \* Home: useState settings
    isExerciseActive,   \* Home: useState isExerciseActive
    remainingTime,      \* BreathingExercise: useState (mounted instance)
    currentPhase,       \* BreathingExercise: useState
    phaseTimeLeft,      \* BreathingExercise: useState
    scale,              \* BreathingExercise: useState, in thousandths
    inst,               \* refs, timers and audio elements of the latest instance
    orphans,            \* the same for earlier instances that still have timers
    values,             \* SetupForm: useState values
    favoriteMode,       \* SetupForm: useState favoriteMode
    formStatus,         \* SetupForm: "mounted", "unmounted" or "error" (render threw)
    storage,            \* localStorage item 'breathing-favorite-mode'
    sliderMoves         \* slider changes made so far (bounded by MaxSliderMoves)

formVars == <<values, favoriteMode, formStatus, storage, sliderMoves>>

vars == <<settings, isExerciseActive, remainingTime, currentPhase,
          phaseTimeLeft, scale, inst, orphans,
          values, favoriteMode, formStatus, storage, sliderMoves>>

(***************************************************************************)
(* Bounds of the model.                                                    *)
(***************************************************************************)
MaxPhaseTime == 1       \* slider values tried for inhale/hold/exhale: 0..MaxPhaseTime
MaxDuration == 1        \* slider values tried for duration: 1..MaxDuration
MaxSliderMoves == 2     \* slider changes made in the setup form in one run

(***************************************************************************)
(* Constants of the program.                                               *)
(***************************************************************************)
SecondsPerMinute == 60
StepsPerSecond == 30
CountdownPeriodMs == 1000
PhaseTimerPeriodMs == 1000
GraceDelayMs == 1000
FadeDurationMs == 200
FadeSteps == 20
FadeOutDelayMs == 200
FadeLeadSteps == 3
MinDuration == 1

Ms(n) == (n * 3) \div 10
FrameTime == Ms(1000) \div StepsPerSecond
FadeStepTime == Ms(FadeDurationMs) \div FadeSteps

None == -1
ScaleNaN == -1
Null == [null |-> TRUE]     \* JavaScript null
Phases == {"inhale", "hold", "exhale"}
Cues == {"inhale", "exhale", "end"}

\* The settings tried.  A cycle needs an inhale or an exhale of positive
\* length (inhaleTime + exhaleTime > 0); each single phase time may be 0.
SettingsChoices ==
    {s \in [inhaleTime : 0..MaxPhaseTime, holdTime : 0..MaxPhaseTime,
            exhaleTime : 0..MaxPhaseTime, duration : MinDuration..MaxDuration] :
        s.inhaleTime + s.exhaleTime > 0}

DefaultSettings ==
    [inhaleTime |-> 4, holdTime |-> 0, exhaleTime |-> 4, duration |-> 5]

(***************************************************************************)
(* Audio elements and the instance record.                                 *)
(***************************************************************************)
FreshAudio == [playing |-> FALSE, volume |-> FadeSteps, rewound |-> TRUE]

NoFade == [mode |-> "none", cue |-> "none", step |-> 0, rem |-> None]

FreshInstance ==
    [timer          |-> None,     \* the session countdown interval
     phaseTimer     |-> None,     \* phaseTimerRef
     phaseIntervals |-> {},       \* animation step intervals (phaseInterval)
     timeouts       |-> {},       \* one-shot timeouts: hold, grace, fadeOut
     fadeInterval   |-> NoFade,   \* fadeIntervalRef
     audio          |-> [c \in Cues |-> FreshAudio],
     \* History of the instance, read by the properties only:
     sinceZero      |-> None,     \* time since remainingTime became 0
     zeroPhase      |-> "none",   \* currentPhase when remainingTime became 0
     endSignals     |-> 0,        \* onStop calls made by the grace timeout
     stopMidStep    |-> FALSE,    \* unmounted while an animation was in flight
     stopPlaying    |-> {},       \* cues that were playing at unmount
     late           |-> {},       \* callbacks that ran after unmount, and
                                  \* "fadeOutStale": a delayed fadeOut of the
                                  \* cue of the phase that is now active
     props          |-> Null,     \* the settings prop at mount
     age            |-> None,     \* time since mount, while mounted
     ticks          |-> 0,        \* countdown callbacks run while mounted
     endScale       |-> None]     \* scale computed by the last step of a phase

(***************************************************************************)
(* Pure helpers of the component.                                          *)
(***************************************************************************)
\* Mutant: the duration of the inhale phase is used for every phase.
PhaseDurationInhaleOnly(s, p) == s.inhaleTime

\* currentPhaseDuration of startPhaseTimer
PhaseDuration(s, p) ==
    IF p = "inhale" THEN s.inhaleTime
    ELSE IF p = "hold" THEN s.holdTime
    ELSE s.exhaleTime

\* Mutant: the duration taken as seconds.
InitialRemainingTimeInMinutes(s) == s.duration

\* useState(settings.duration * 60)
InitialRemainingTime(s) == s.duration * SecondsPerMinute

\* inhaleSteps / exhaleSteps
PhaseSteps(s, p) == PhaseDuration(s, p) * StepsPerSecond

\* Mutant: hold entered whatever holdTime is.
NextPhaseAlwaysHold(s, p) == IF p = "inhale" THEN "hold" ELSE "inhale"

\* Mutant: hold never entered.
NextPhaseNeverHold(s, p) == IF p = "inhale" THEN "exhale" ELSE "inhale"

\* The phase set when an inhale or exhale animation completes.
NextPhase(s, p) ==
    IF p = "inhale"
    THEN (IF s.holdTime > 0 THEN "hold" ELSE "exhale")
    ELSE "inhale"

\* The value given to setScale at step `step` of `steps`, in thousandths.
\* sin and cos of progress * PI / 2 are the rational approximants
\*   sin(p*PI/2) ~ 4p(2-p) / (5 - p(2-p)),  cos(p*PI/2) ~ 4(1-p^2) / (4+p^2),
\* exact at p = 0 and p = 1.  With steps = 0, progress is step/0 = Infinity
\* and Math.cos and Math.sin of Infinity are NaN.
Scale(p, step, steps) ==
    IF steps = 0 THEN ScaleNaN
    ELSE IF p = "inhale"
    THEN 1000 + (1500 * step * step) \div (4 * steps * steps + step * step)
    ELSE 1300 - (1200 * step * (2 * steps - step))
                  \div (5 * steps * steps - step * (2 * steps - step))

(***************************************************************************)
(* Audio: fadeOut, fadeIn, playSound.  Each returns the instance record    *)
(* after the call.                                                         *)
(***************************************************************************)
\* clearInterval(fadeIntervalRef.current); fadeIntervalRef.current = setInterval(...)
fadeOut(r, cue) ==
    [r EXCEPT !.fadeInterval =
        [mode |-> "out", cue |-> cue, step |-> 0, rem |-> FadeStepTime]]

fadeIn(r, cue) ==
    [r EXCEPT !.audio[cue] = [playing |-> TRUE, volume |-> 0, rewound |-> TRUE],
              !.fadeInterval =
        [mode |-> "in", cue |-> cue, step |-> 0, rem |-> FadeStepTime]]

playSound(r, p) ==
    LET cur   == IF p = "inhale" THEN "inhale" ELSE "exhale"
        other == IF p = "inhale" THEN "exhale" ELSE "inhale"
        r1    == fadeIn(r, cur)
    IN  IF r1.audio[other].volume > 0
        THEN [r1 EXCEPT !.timeouts = @ \cup
                 {[kind |-> "fadeOut", cue |-> other, rem |-> Ms(FadeOutDelayMs)]}]
        ELSE r1

\* One callback of the fade interval.
FadeStepped(r) ==
    LET f    == r.fadeInterval
        step == f.step + 1
        done == step >= FadeSteps
        vol  == IF f.mode = "out"
                THEN (IF FadeSteps - step < 0 THEN 0 ELSE FadeSteps - step)
                ELSE (IF step > FadeSteps THEN FadeSteps ELSE step)
    IN  [r EXCEPT
           !.fadeInterval = IF done THEN NoFade
                            ELSE [f EXCEPT !.step = step, !.rem = FadeStepTime],
           !.audio[f.cue] =
                IF done /\ f.mode = "out"
                THEN [playing |-> FALSE, volume |-> FadeSteps, rewound |-> TRUE]
                ELSE [@ EXCEPT !.volume = vol]]

(***************************************************************************)
(* Effects of the component and their cleanups.                            *)
(***************************************************************************)
\* Mutant: the interval is left running.
ClearPhaseIntervalNot(S, p) == S

\* clearInterval(phaseInterval): the interval of the effect run for phase p
ClearPhaseInterval(S, p) == {t \in S : t.phase # p}

\* Effect 1 (session countdown): setInterval(..., 1000)
startCountdown(r) == [r EXCEPT !.timer = Ms(CountdownPeriodMs)]

\* Mutant: the cues are not paused.
countdownCleanupNoPause(r) == [r EXCEPT !.timer = None, !.fadeInterval = NoFade]

\* Effect 1 cleanup
countdownCleanup(r) ==
    [r EXCEPT !.timer = None,
              !.fadeInterval = NoFade,
              !.audio = [c \in Cues |->
                           IF c \in {"inhale", "exhale"}
                           THEN [@[c] EXCEPT !.playing = FALSE, !.rewound = TRUE]
                           ELSE @[c]]]

\* Effect 2 (phase timer): startPhaseTimer
startPhaseTimer(r) == [r EXCEPT !.phaseTimer = Ms(PhaseTimerPeriodMs)]

\* Effect 2 cleanup
phaseTimerCleanup(r) == [r EXCEPT !.phaseTimer = None]

\* Mutant: the hold phase schedules no timeout.
animatePhaseHoldStuck(r, s, p) ==
    IF p = "hold" THEN r
    ELSE [playSound(r, p) EXCEPT !.phaseIntervals = @ \cup
             {[phase |-> p, step |-> 0, steps |-> PhaseSteps(s, p),
               rem |-> FrameTime]}]

\* Effect 3 (animation): animatePhase for phase p
animatePhase(r, s, p) ==
    LET interval == [phase |-> p, step |-> 0, steps |-> PhaseSteps(s, p),
                     rem |-> FrameTime]
    IN  IF p = "hold"
        THEN [r EXCEPT !.timeouts = @ \cup
                 {[kind |-> "hold", cue |-> "none",
                   rem |-> Ms(s.holdTime * 1000)]}]
        ELSE [playSound(r, p) EXCEPT !.phaseIntervals = @ \cup {interval}]

\* Mutant: only the fade is stopped, the step interval is not cleared.
animationCleanupFadeOnly(r, p) == [r EXCEPT !.fadeInterval = NoFade]

\* Effect 3 cleanup, of the effect run for phase p
animationCleanup(r, p) ==
    [r EXCEPT !.phaseIntervals = ClearPhaseInterval(@, p),
              !.fadeInterval = NoFade]

\* A re-render after currentPhase changed from p to q: the cleanups of
\* effects 2 and 3, then their new runs.
PhaseChanged(r, s, p, q) ==
    animatePhase(startPhaseTimer(animationCleanup(phaseTimerCleanup(r), p)), s, q)

\* Mount: the three effects run for the initial phase.
Mounted(s) ==
    animatePhase(startPhaseTimer(startCountdown(
        [FreshInstance EXCEPT !.props = s, !.age = 0])), s, "inhale")

\* Unmount: the three cleanups.
Unmounted(r, p) ==
    [phaseTimerCleanup(animationCleanup(countdownCleanup(r), p))
        EXCEPT !.stopMidStep = \E t \in r.phaseIntervals :
                                  t.step > 0 /\ t.step < t.steps,
               !.stopPlaying = {c \in Cues : r.audio[c].playing},
               !.age = None,
               !.ticks = 0,
               !.endScale = None]

(***************************************************************************)
(* Timers of an instance.                                                  *)
(***************************************************************************)
Rems(r) ==
    ({r.timer, r.phaseTimer, r.fadeInterval.rem} \ {None})
        \cup {t.rem : t \in r.phaseIntervals}
        \cup {t.rem : t \in r.timeouts}

Pending(r) == Rems(r) # {}

Min(S) == CHOOSE x \in S : \A y \in S : x <= y

Sub(x, d) == IF x = None THEN None ELSE x - d

\* d units of time pass for instance r.
Elapse(r, d) ==
    [r EXCEPT
       !.timer = Sub(@, d),
       !.phaseTimer = Sub(@, d),
       !.fadeInterval = [@ EXCEPT !.rem = Sub(@, d)],
       !.phaseIntervals = {[t EXCEPT !.rem = @ - d] : t \in @},
       !.timeouts = {[t EXCEPT !.rem = @ - d] : t \in @},
       !.audio = [c \in Cues |->
                    IF @[c].playing THEN [@[c] EXCEPT !.rewound = FALSE] ELSE @[c]],
       !.sinceZero = IF @ = None THEN None
                     ELSE IF @ + d > Ms(GraceDelayMs) THEN Ms(GraceDelayMs)
                     ELSE @ + d,
       !.age = IF @ = None THEN None ELSE @ + d]

\* Instance 0 is the latest one (inst); 1..Len(orphans) are earlier ones.
Slots == 0..Len(orphans)
Get(k) == IF k = 0 THEN inst ELSE orphans[k]
Live(k) == k = 0 /\ isExerciseActive
Prune(seq) == SelectSeq(seq, Pending)

\* Instance k becomes r; earlier instances without timers are dropped.
Put(k, r) ==
    /\ inst' = IF k = 0 THEN r ELSE inst
    /\ orphans' = Prune(IF k = 0 THEN orphans ELSE [orphans EXCEPT ![k] = r])

(***************************************************************************)
(* SetupForm: JavaScript values, JSON text and the localStorage item.      *)
(*                                                                         *)
(* An object is a function from its keys to its numbers; null is Null.     *)
(* A JSON text is a sequence of tokens: "{", "}", ":", ",", "null", a key  *)
(* (a quoted string) or one decimal digit.  The texts tried are null and   *)
(* objects with number members, whole or cut short.                        *)
(***************************************************************************)
SyntaxError == [error |-> "SyntaxError"]
EmptyObject == [k \in {} |-> 0]

\* The keys of a settings object, in the order of their insertion.
KeyOrder == <<"inhaleTime", "holdTime", "exhaleTime", "duration">>
Keys == {KeyOrder[i] : i \in 1..Len(KeyOrder)}

DigitChar == <<"0", "1", "2", "3", "4", "5", "6", "7", "8", "9">>
IsDigit(c) == \E d \in 1..10 : DigitChar[d] = c
DigitValue(c) == (CHOOSE d \in 1..10 : DigitChar[d] = c) - 1

\* Mutant: only the last digit is written.
NumberToStringLastDigit(n) == <<DigitChar[(n % 10) + 1]>>

\* JSON.stringify of a whole number n >= 0
RECURSIVE NumberToString(_)
NumberToString(n) ==
    IF n < 10 THEN <<DigitChar[n + 1]>>
    ELSE NumberToString(n \div 10) \o <<DigitChar[(n % 10) + 1]>>

\* The members of object v from key i of KeyOrder on, comma-separated.
RECURSIVE StringifyMembers(_, _, _)
StringifyMembers(v, i, first) ==
    IF i > Len(KeyOrder) THEN <<>>
    ELSE IF KeyOrder[i] \notin DOMAIN v THEN StringifyMembers(v, i + 1, first)
    ELSE (IF first THEN <<>> ELSE <<",">>)
            \o <<KeyOrder[i], ":">> \o NumberToString(v[KeyOrder[i]])
            \o StringifyMembers(v, i + 1, FALSE)

\* JSON.stringify(v)
Stringify(v) ==
    IF v = Null THEN <<"null">>
    ELSE <<"{">> \o StringifyMembers(v, 1, TRUE) \o <<"}">>

\* The index after the JSON number that starts at txt[i]: a single "0", or
\* a digit 1..9 followed by digits.
RECURSIVE NumberEnd(_, _, _)
NumberEnd(txt, i, start) ==
    IF i > Len(txt) \/ ~IsDigit(txt[i]) THEN i
    ELSE IF i = start /\ txt[i] = "0" THEN i + 1
    ELSE NumberEnd(txt, i + 1, start)

RECURSIVE NumberValue(_, _, _)
NumberValue(txt, i, j) ==
    IF j <= i THEN 0
    ELSE 10 * NumberValue(txt, i, j - 1) + DigitValue(txt[j - 1])

\* obj with member k set to n ({...obj, [k]: n})
WithMember(obj, k, n) ==
    [x \in DOMAIN obj \cup {k} |-> IF x = k THEN n ELSE obj[x]]

\* The members of an object from txt[i] on, up to the closing brace that
\* ends the text; obj holds the members read so far.
RECURSIVE ParseMembers(_, _, _)
ParseMembers(txt, i, obj) ==
    LET j == NumberEnd(txt, i + 2, i + 2) IN
    IF i + 2 > Len(txt) \/ txt[i] \notin Keys \/ txt[i + 1] # ":" \/ j = i + 2
    THEN SyntaxError
    ELSE LET o == WithMember(obj, txt[i], NumberValue(txt, i + 2, j)) IN
         IF j = Len(txt) /\ txt[j] = "}" THEN o
         ELSE IF j < Len(txt) /\ txt[j] = "," THEN ParseMembers(txt, j + 1, o)
         ELSE SyntaxError

\* JSON.parse(txt): the value, or SyntaxError when it throws.
Parse(txt) ==
    IF txt = <<"null">> THEN Null
    ELSE IF txt = <<"{", "}">> THEN EmptyObject
    ELSE IF Len(txt) > 2 /\ txt[1] = "{" THEN ParseMembers(txt, 2, EmptyObject)
    ELSE SyntaxError

(***************************************************************************)
(* SetupForm: the stored favorite, the form's state and its handlers.      *)
(***************************************************************************)
MinPhaseTime == 0
MaxSliderPhaseTime == 10
MaxSliderDuration == 20

PRESET_MODES ==
    <<[inhaleTime |-> 4, holdTime |-> 6, exhaleTime |-> 7, duration |-> 6],
      [inhaleTime |-> 5, holdTime |-> 0, exhaleTime |-> 6, duration |-> 7]>>

SliderMin(name) == IF name = "duration" THEN MinDuration ELSE MinPhaseTime
SliderMax(name) ==
    IF name = "duration" THEN MaxSliderDuration ELSE MaxSliderPhaseTime

\* The slider positions tried: both ends of the range.  The browser keeps
\* the value of a range input within min..max.
SliderStops(name) == {SliderMin(name), SliderMax(name)}

\* A Settings value the sliders can produce.
InSliderRange(v) ==
    /\ DOMAIN v = Keys
    /\ \A k \in Keys : v[k] >= SliderMin(k) /\ v[k] <= SliderMax(k)

\* The item of localStorage.  written, saved and readBack are history, read
\* by the properties only: who wrote the item's present state ("foreign":
\* not this form), the value last given to saveFavorite, and whether a
\* form has mounted since.
NoItem ==
    [has |-> FALSE, text |-> <<>>, written |-> "foreign", saved |-> Null,
     readBack |-> FALSE]

ForeignItem(txt) == [NoItem EXCEPT !.has = TRUE, !.text = txt]

\* localStorage.setItem(FAVORITE_MODE_KEY, txt), on behalf of saveFavorite(v)
setItem(st, txt, v) ==
    [has |-> TRUE, text |-> txt, written |-> "save", saved |-> v,
     readBack |-> FALSE]

\* Mutant: the item is left in the storage.
removeItemNot(st) == st

\* localStorage.removeItem(FAVORITE_MODE_KEY)
removeItem(st) == [NoItem EXCEPT !.written = "clear"]

\* What the storage holds when the page is first opened.
StorageChoices ==
    {NoItem,
     ForeignItem(<<>>),
     ForeignItem(<<"null">>),
     ForeignItem(<<"{", "}">>),
     ForeignItem(<<"{", "inhaleTime", ":", "4">>),
     ForeignItem(Stringify(PRESET_MODES[1])),
     ForeignItem(Stringify([DefaultSettings EXCEPT !.duration = 21]))}

\* The initializer of favoriteMode: saved ? JSON.parse(saved) : null
ReadFavorite(st) ==
    IF ~st.has \/ st.text = <<>> THEN Null ELSE Parse(st.text)

\* The form's state after its first render with initialValues = s.
MountedForm(s, st) ==
    IF ReadFavorite(st) = SyntaxError
    THEN [values |-> Null, favoriteMode |-> Null, formStatus |-> "error"]
    ELSE [values |-> s, favoriteMode |-> ReadFavorite(st),
          formStatus |-> "mounted"]

FormMounts(s) ==
    /\ values' = MountedForm(s, storage).values
    /\ favoriteMode' = MountedForm(s, storage).favoriteMode
    /\ formStatus' = MountedForm(s, storage).formStatus
    /\ storage' = [storage EXCEPT !.readBack = TRUE]
    /\ UNCHANGED sliderMoves

FormUnmounts ==
    /\ values' = Null
    /\ favoriteMode' = Null
    /\ formStatus' = "unmounted"
    /\ UNCHANGED <<storage, sliderMoves>>

(***************************************************************************)
(* Home: startExercise and stopExercise.                                   *)
(***************************************************************************)
\* SetupForm's onStart(values) -> startExercise(values); BreathingExercise
\* mounts.  The form is shown only while no exercise is active.
StartExercise(v) ==
    /\ ~isExerciseActive
    /\ settings' = v
    /\ isExerciseActive' = TRUE
    /\ remainingTime' = InitialRemainingTime(v)
    /\ currentPhase' = "inhale"
    /\ phaseTimeLeft' = PhaseDuration(v, "inhale")
    /\ scale' = 1000
    /\ inst' = Mounted(v)
    /\ orphans' = Prune(<<inst>> \o orphans)
    /\ FormUnmounts

\* Mutant: stopping also puts the settings back to the defaults.
StopExerciseResets(r) ==
    /\ isExerciseActive' = FALSE
    /\ inst' = IF isExerciseActive THEN Unmounted(r, currentPhase) ELSE r
    /\ remainingTime' = 0
    /\ currentPhase' = "inhale"
    /\ phaseTimeLeft' = 0
    /\ scale' = 1000
    /\ settings' = DefaultSettings
    /\ IF isExerciseActive THEN FormMounts(DefaultSettings)
       ELSE UNCHANGED formVars

\* stopExercise(): setIsExerciseActive(false).  When the exercise was active,
\* Home re-renders and BreathingExercise unmounts; r is the latest instance
\* as the caller left it.
StopExercise(r) ==
    /\ isExerciseActive' = FALSE
    /\ inst' = IF isExerciseActive THEN Unmounted(r, currentPhase) ELSE r
    /\ remainingTime' = 0
    /\ currentPhase' = "inhale"
    /\ phaseTimeLeft' = 0
    /\ scale' = 1000
    /\ UNCHANGED settings
    /\ IF isExerciseActive THEN FormMounts(settings) ELSE UNCHANGED formVars

\* The Stop button of the mounted component.
UserStop ==
    /\ isExerciseActive
    /\ StopExercise(inst)
    /\ orphans' = Prune(orphans)

(***************************************************************************)
(* Timer callbacks of BreathingExercise.                                   *)
(***************************************************************************)
\* Mutant: onStop is called without delay.
GraceDelayNone == Ms(0)

\* The delay of the timeout that calls onStop after the countdown ended.
GraceDelay == Ms(GraceDelayMs)

\* Mutant: the interval is not cleared when the countdown reaches 0.
countdownExpiredKeepsTicking(r, p) ==
    [r EXCEPT !.timer = Ms(CountdownPeriodMs),
              !.audio["end"] = [@ EXCEPT !.playing = TRUE, !.rewound = TRUE],
              !.timeouts = @ \cup {[kind |-> "grace", cue |-> "none",
                                    rem |-> Ms(GraceDelayMs)]},
              !.sinceZero = 0,
              !.zeroPhase = p]

\* Mutant: onStop is not scheduled when the countdown reaches 0.
countdownExpiredNoSignal(r, p) ==
    [r EXCEPT !.timer = None,
              !.audio["end"] = [@ EXCEPT !.playing = TRUE, !.rewound = TRUE],
              !.sinceZero = 0,
              !.zeroPhase = p]

\* The branch prev <= 1 of the countdown's updater: clearInterval(timer),
\* the end cue is rewound and played, onStop is scheduled.
countdownExpired(r, p) ==
    [r EXCEPT !.timer = None,
              !.audio["end"] = [@ EXCEPT !.playing = TRUE, !.rewound = TRUE],
              !.timeouts = @ \cup {[kind |-> "grace", cue |-> "none",
                                    rem |-> GraceDelay]},
              !.sinceZero = 0,
              !.zeroPhase = p]

\* setInterval callback of effect 1.
CountdownTick(k) ==
    LET r == Get(k) IN
    /\ r.timer = 0
    /\ IF Live(k)
       THEN IF remainingTime <= 1
            THEN /\ remainingTime' = 0
                 /\ Put(k, [countdownExpired(r, currentPhase)
                                EXCEPT !.ticks = @ + 1])
            ELSE /\ remainingTime' = remainingTime - 1
                 /\ Put(k, [r EXCEPT !.timer = Ms(CountdownPeriodMs),
                                     !.ticks = @ + 1])
       ELSE /\ Put(k, [r EXCEPT !.timer = Ms(CountdownPeriodMs)])
            /\ UNCHANGED remainingTime
    /\ UNCHANGED <<settings, isExerciseActive, currentPhase, phaseTimeLeft, scale, formVars>>

\* Mutant: the phase timer moves the session to the next phase when it
\* runs out.
PhaseTimerTickDrives(k) ==
    LET r == Get(k)
        q == NextPhase(settings, currentPhase)
    IN
    /\ r.phaseTimer = 0
    /\ IF Live(k)
       THEN IF phaseTimeLeft <= 1
            THEN /\ currentPhase' = q
                 /\ phaseTimeLeft' = PhaseDuration(settings, q)
                 /\ Put(k, PhaseChanged(r, settings, currentPhase, q))
            ELSE /\ phaseTimeLeft' = phaseTimeLeft - 1
                 /\ Put(k, [r EXCEPT !.phaseTimer = Ms(PhaseTimerPeriodMs)])
                 /\ UNCHANGED currentPhase
       ELSE /\ Put(k, [r EXCEPT !.phaseTimer = Ms(PhaseTimerPeriodMs)])
            /\ UNCHANGED <<currentPhase, phaseTimeLeft>>
    /\ UNCHANGED <<settings, isExerciseActive, remainingTime, scale, formVars>>

\* setInterval callback of effect 2.
PhaseTimerTick(k) ==
    LET r == Get(k) IN
    /\ r.phaseTimer = 0
    /\ IF Live(k)
       THEN IF phaseTimeLeft <= 1
            THEN /\ phaseTimeLeft' = PhaseDuration(settings, currentPhase)
                 /\ Put(k, [r EXCEPT !.phaseTimer = None])
            ELSE /\ phaseTimeLeft' = phaseTimeLeft - 1
                 /\ Put(k, [r EXCEPT !.phaseTimer = Ms(PhaseTimerPeriodMs)])
       ELSE /\ Put(k, [r EXCEPT !.phaseTimer = Ms(PhaseTimerPeriodMs)])
            /\ UNCHANGED phaseTimeLeft
    /\ UNCHANGED <<settings, isExerciseActive, remainingTime, currentPhase, scale, formVars>>

\* setCurrentPhase(q) by a callback of instance k that left the instance as r.
SetCurrentPhase(k, r, q, newScale) ==
    IF Live(k) /\ q # currentPhase
    THEN /\ currentPhase' = q
         /\ phaseTimeLeft' = PhaseDuration(settings, q)
         /\ scale' = IF q = "inhale" THEN 1000 ELSE newScale
         /\ Put(k, [PhaseChanged(r, settings, currentPhase, q)
                        EXCEPT !.endScale = newScale])
    ELSE /\ scale' = newScale
         /\ Put(k, r)
         /\ UNCHANGED <<currentPhase, phaseTimeLeft>>

\* setInterval callback of effect 3 (inhale and exhale).
AnimationStep(k, t) ==
    LET r    == Get(k)
        step == t.step + 1
        r1   == IF step = t.steps - FadeLeadSteps THEN fadeOut(r, t.phase) ELSE r
        done == step >= t.steps
        ran  == (r1.phaseIntervals \ {t})
                    \cup {[t EXCEPT !.step = step, !.rem = FrameTime]}
        r2   == [r1 EXCEPT
                   !.phaseIntervals =
                       IF done THEN ClearPhaseInterval(ran, t.phase) ELSE ran,
                   !.late = IF Live(k) THEN @ ELSE @ \cup {"animation"}]
        newScale == IF Live(k) THEN Scale(t.phase, step, t.steps) ELSE scale
    IN
    /\ t \in r.phaseIntervals
    /\ t.rem = 0
    /\ IF done
       THEN SetCurrentPhase(k, r2, NextPhase(settings, t.phase), newScale)
       ELSE /\ scale' = newScale
            /\ Put(k, r2)
            /\ UNCHANGED <<currentPhase, phaseTimeLeft>>
    /\ UNCHANGED <<settings, isExerciseActive, remainingTime, formVars>>

\* setTimeout callback of effect 3 (hold).
HoldTimeout(k, t) ==
    LET r == Get(k) IN
    /\ t \in r.timeouts
    /\ t.kind = "hold"
    /\ t.rem = 0
    /\ SetCurrentPhase(k, [r EXCEPT !.timeouts = @ \ {t},
                                    !.late = IF Live(k) THEN @ ELSE @ \cup {"hold"}],
                       "exhale", scale)
    /\ UNCHANGED <<settings, isExerciseActive, remainingTime, formVars>>

\* setTimeout callback of the countdown: onStop().
GraceTimeout(k, t) ==
    LET r  == Get(k)
        r1 == [r EXCEPT !.timeouts = @ \ {t}, !.endSignals = @ + 1,
                        !.late = IF Live(k) THEN @ ELSE @ \cup {"grace"}]
    IN
    /\ t \in r.timeouts
    /\ t.kind = "grace"
    /\ t.rem = 0
    /\ StopExercise(IF k = 0 THEN r1 ELSE inst)
    /\ orphans' = Prune(IF k = 0 THEN orphans ELSE [orphans EXCEPT ![k] = r1])

\* setTimeout callback of playSound: fadeOut(otherAudio).
FadeOutTimeout(k, t) ==
    LET r == Get(k) IN
    /\ t \in r.timeouts
    /\ t.kind = "fadeOut"
    /\ t.rem = 0
    /\ Put(k, fadeOut([r EXCEPT
                          !.timeouts = @ \ {t},
                          !.late = IF ~Live(k) THEN @ \cup {"fadeOut"}
                                   ELSE IF currentPhase = t.cue
                                   THEN @ \cup {"fadeOutStale"}
                                   ELSE @],
                       t.cue))
    /\ UNCHANGED <<settings, isExerciseActive, remainingTime, currentPhase,
                   phaseTimeLeft, scale, formVars>>

\* setInterval callback of fadeIn / fadeOut.
FadeStep(k) ==
    LET r == Get(k) IN
    /\ r.fadeInterval.rem = 0
    /\ Put(k, [FadeStepped(r)
                  EXCEPT !.late = IF Live(k) THEN @ ELSE @ \cup {"fade"}])
    /\ UNCHANGED <<settings, isExerciseActive, remainingTime, currentPhase,
                   phaseTimeLeft, scale, formVars>>

\* Time passes until the next timer is due.
Advance ==
    LET all == UNION {Rems(Get(k)) : k \in Slots}
        d   == Min(all)
    IN
    /\ all # {}
    /\ d > 0
    /\ inst' = Elapse(inst, d)
    /\ orphans' = [k \in 1..Len(orphans) |-> Elapse(orphans[k], d)]
    /\ UNCHANGED <<settings, isExerciseActive, remainingTime, currentPhase,
                   phaseTimeLeft, scale, formVars>>

Init ==
    /\ settings = DefaultSettings
    /\ isExerciseActive = FALSE
    /\ remainingTime = 0
    /\ currentPhase = "inhale"
    /\ phaseTimeLeft = 0
    /\ scale = 1000
    /\ inst = FreshInstance
    /\ orphans = <<>>
    /\ storage = [NoItem EXCEPT !.readBack = TRUE]
    /\ values = MountedForm(DefaultSettings, NoItem).values
    /\ favoriteMode = MountedForm(DefaultSettings, NoItem).favoriteMode
    /\ formStatus = MountedForm(DefaultSettings, NoItem).formStatus
    /\ sliderMoves = 0

\* No timer of an earlier exercise is pending.
Drained == ~Pending(inst) /\ orphans = <<>>

\* In Spec the user starts an exercise once the timers left by the previous
\* one have run out.
Next ==
    \/ \E v \in SettingsChoices : Drained /\ StartExercise(v)
    \/ UserStop
    \/ \E k \in Slots : CountdownTick(k)
    \/ \E k \in Slots : PhaseTimerTick(k)
    \/ \E k \in Slots : \E t \in Get(k).phaseIntervals : AnimationStep(k, t)
    \/ \E k \in Slots : \E t \in Get(k).timeouts : HoldTimeout(k, t)
    \/ \E k \in Slots : \E t \in Get(k).timeouts : GraceTimeout(k, t)
    \/ \E k \in Slots : \E t \in Get(k).timeouts : FadeOutTimeout(k, t)
    \/ \E k \in Slots : FadeStep(k)
    \/ Advance

Spec == Init /\ [][Next]_vars

\* The browser runs every timer callback that is due and time passes.
TimerNext ==
    \/ \E k \in Slots : CountdownTick(k)
    \/ \E k \in Slots : PhaseTimerTick(k)
    \/ \E k \in Slots : \E t \in Get(k).phaseIntervals : AnimationStep(k, t)
    \/ \E k \in Slots : \E t \in Get(k).timeouts : HoldTimeout(k, t)
    \/ \E k \in Slots : \E t \in Get(k).timeouts : GraceTimeout(k, t)
    \/ \E k \in Slots : \E t \in Get(k).timeouts : FadeOutTimeout(k, t)
    \/ \E k \in Slots : FadeStep(k)
    \/ Advance

\* The settings of the runs checked under fairness: every phase time at one
\* end of its range, the longest duration.
FairSettings ==
    {s \in SettingsChoices :
        /\ s.duration = MaxDuration
        /\ \A n \in {s.inhaleTime, s.holdTime, s.exhaleTime} :
              n \in {0, MaxPhaseTime}}

NextFair ==
    \/ \E v \in FairSettings : Drained /\ StartExercise(v)
    \/ UserStop
    \/ \E k \in Slots : CountdownTick(k)
    \/ \E k \in Slots : PhaseTimerTick(k)
    \/ \E k \in Slots : \E t \in Get(k).phaseIntervals : AnimationStep(k, t)
    \/ \E k \in Slots : \E t \in Get(k).timeouts : HoldTimeout(k, t)
    \/ \E k \in Slots : \E t \in Get(k).timeouts : GraceTimeout(k, t)
    \/ \E k \in Slots : \E t \in Get(k).timeouts : FadeOutTimeout(k, t)
    \/ \E k \in Slots : FadeStep(k)
    \/ Advance

\* The timers run: a due callback is eventually called and time passes.
FairSpec == Init /\ [][NextFair]_vars /\ WF_vars(TimerNext)

(***************************************************************************)
(* SpecPlay: the session with play attempts that may fail.  play() returns *)
(* a promise; when the platform refuses to start the cue the element stays *)
(* paused and the promise is rejected, before any time has passed.         *)
(***************************************************************************)
\* Mutant: a failed play attempt stops the animation.
playRejectedBlocks(r, c) ==
    [r EXCEPT !.audio[c].playing = FALSE, !.phaseIntervals = {}]

\* audio.play().catch(console.error): the rejection is logged, nothing else.
playRejected(r, c) == [r EXCEPT !.audio[c].playing = FALSE]

\* The play attempt just made on cue c of instance k is rejected.
PlayRejected(k, c) ==
    LET r == Get(k) IN
    /\ r.audio[c].playing
    /\ r.audio[c].rewound
    /\ Put(k, playRejected(r, c))
    /\ UNCHANGED <<settings, isExerciseActive, remainingTime, currentPhase,
                   phaseTimeLeft, scale, formVars>>

\* The settings tried in SpecPlay: inhale and exhale of the longest length
\* tried, with and without a hold.
PlaySettings ==
    {s \in SettingsChoices :
        /\ s.inhaleTime = MaxPhaseTime
        /\ s.exhaleTime = MaxPhaseTime
        /\ s.holdTime \in {0, MaxPhaseTime}
        /\ s.duration = MaxDuration}

NextPlay ==
    \/ \E v \in PlaySettings : Drained /\ StartExercise(v)
    \/ UserStop
    \/ \E k \in Slots : CountdownTick(k)
    \/ \E k \in Slots : PhaseTimerTick(k)
    \/ \E k \in Slots : \E t \in Get(k).phaseIntervals : AnimationStep(k, t)
    \/ \E k \in Slots : \E t \in Get(k).timeouts : HoldTimeout(k, t)
    \/ \E k \in Slots : \E t \in Get(k).timeouts : GraceTimeout(k, t)
    \/ \E k \in Slots : \E t \in Get(k).timeouts : FadeOutTimeout(k, t)
    \/ \E k \in Slots : FadeStep(k)
    \/ \E k \in Slots : \E c \in Cues : PlayRejected(k, c)
    \/ Advance

SpecPlay == Init /\ [][NextPlay]_vars

(***************************************************************************)
(* SpecForm: the setup form, the storage and the host page.  The session   *)
(* component is left out: between its mount and its end it neither reads   *)
(* nor writes the form's state, the settings or the storage.               *)
(***************************************************************************)
sessionVars == <<remainingTime, currentPhase, phaseTimeLeft, scale, inst, orphans>>

\* A slider is moved: setValues(prev => ({...prev, [name]: Number(value)}))
handleChange(name, n) ==
    /\ formStatus = "mounted"
    /\ sliderMoves < MaxSliderMoves
    /\ sliderMoves' = sliderMoves + 1
    /\ values' = WithMember(values, name, n)
    /\ UNCHANGED <<favoriteMode, formStatus, storage, settings,
                   isExerciseActive, sessionVars>>

\* A preset button: setValues(preset.values)
applyPreset(preset) ==
    /\ formStatus = "mounted"
    /\ values' = preset
    /\ UNCHANGED <<favoriteMode, formStatus, storage, settings,
                   isExerciseActive, sessionVars, sliderMoves>>

\* Mutant: the favorite button saves whether or not there is a favorite.
saveFavoriteAlways ==
    /\ formStatus = "mounted"
    /\ storage' = setItem(storage, Stringify(values), values)
    /\ favoriteMode' = values
    /\ UNCHANGED <<values, formStatus, settings, isExerciseActive, sessionVars,
                   sliderMoves>>

\* The favorite button while there is no favorite.
saveFavorite ==
    /\ formStatus = "mounted"
    /\ favoriteMode = Null
    /\ storage' = setItem(storage, Stringify(values), values)
    /\ favoriteMode' = values
    /\ UNCHANGED <<values, formStatus, settings, isExerciseActive, sessionVars,
                   sliderMoves>>

\* The favorite button while there is a favorite.
applyFavorite ==
    /\ formStatus = "mounted"
    /\ favoriteMode # Null
    /\ values' = favoriteMode
    /\ UNCHANGED <<favoriteMode, formStatus, storage, settings,
                   isExerciseActive, sessionVars, sliderMoves>>

\* The button "Effacer favori", rendered while there is a favorite.
clearFavorite ==
    /\ formStatus = "mounted"
    /\ favoriteMode # Null
    /\ storage' = removeItem(storage)
    /\ favoriteMode' = Null
    /\ UNCHANGED <<values, formStatus, settings, isExerciseActive, sessionVars,
                   sliderMoves>>

\* The form is submitted: onStart(values), that is startExercise(values);
\* Home renders the session in place of the form.
handleSubmit ==
    /\ formStatus = "mounted"
    /\ settings' = values
    /\ isExerciseActive' = TRUE
    /\ FormUnmounts
    /\ UNCHANGED sessionVars

\* The session calls onStop, that is stopExercise(); Home renders the form
\* with initialValues = settings.
SessionOver ==
    /\ isExerciseActive
    /\ isExerciseActive' = FALSE
    /\ FormMounts(settings)
    /\ UNCHANGED <<settings, sessionVars>>

\* The page is loaded again: Home starts from its initial state.
ReloadPage ==
    /\ settings' = DefaultSettings
    /\ isExerciseActive' = FALSE
    /\ FormMounts(DefaultSettings)
    /\ UNCHANGED sessionVars

InitForm ==
    /\ settings = DefaultSettings
    /\ isExerciseActive = FALSE
    /\ remainingTime = 0
    /\ currentPhase = "inhale"
    /\ phaseTimeLeft = 0
    /\ scale = 1000
    /\ inst = FreshInstance
    /\ orphans = <<>>
    /\ \E st \in StorageChoices :
          /\ storage = [st EXCEPT !.readBack = TRUE]
          /\ values = MountedForm(DefaultSettings, st).values
          /\ favoriteMode = MountedForm(DefaultSettings, st).favoriteMode
          /\ formStatus = MountedForm(DefaultSettings, st).formStatus
    /\ sliderMoves = 0

NextForm ==
    \/ \E name \in Keys : \E n \in SliderStops(name) : handleChange(name, n)
    \/ \E i \in 1..Len(PRESET_MODES) : applyPreset(PRESET_MODES[i])
    \/ saveFavorite
    \/ applyFavorite
    \/ clearFavorite
    \/ handleSubmit
    \/ SessionOver
    \/ ReloadPage

SpecForm == InitForm /\ [][NextForm]_vars

(***************************************************************************)
(* Properties.                                                             *)
(***************************************************************************)
Instances == {Get(k) : k \in Slots}
KindPending(r, kind) == \E t \in r.timeouts : t.kind = kind

\* C1: immediately after a session is started, remainingTime is
\* duration * 60 and currentPhase is inhale, for every settings value.
C1_StartInitialises ==
    [][(~isExerciseActive /\ isExerciseActive')
          => (remainingTime' = settings'.duration * 60
              /\ currentPhase' = "inhale")]_vars

C1_Witness ==
    /\ isExerciseActive
    /\ remainingTime = settings.duration * 60
    /\ currentPhase = "inhale"
    /\ \E t \in inst.phaseIntervals : t.step = 0

\* C2: with holdTime = 0 the phase is never hold, and the only phase
\* changes of a mounted session are inhale -> exhale and exhale -> inhale.
C2_NoHoldWhenZero ==
    [][(isExerciseActive' /\ settings'.holdTime = 0)
          => /\ currentPhase' # "hold"
             /\ (isExerciseActive /\ currentPhase' # currentPhase)
                   => \/ currentPhase = "inhale" /\ currentPhase' = "exhale"
                      \/ currentPhase = "exhale" /\ currentPhase' = "inhale"]_vars

\* A second inhale of a session without hold: the cycle has wrapped around.
C2_Witness ==
    /\ isExerciseActive
    /\ settings.holdTime = 0
    /\ settings.inhaleTime > 0 /\ settings.exhaleTime > 0
    /\ currentPhase = "inhale"
    /\ remainingTime <= InitialRemainingTime(settings)
                           - settings.inhaleTime - settings.exhaleTime

\* C3: with holdTime > 0 the only phase changes of a mounted session are
\* inhale -> hold, hold -> exhale and exhale -> inhale.
C3_HoldSequence ==
    [][(isExerciseActive /\ isExerciseActive' /\ settings.holdTime > 0
          /\ currentPhase' # currentPhase)
          => \/ currentPhase = "inhale" /\ currentPhase' = "hold"
             \/ currentPhase = "hold" /\ currentPhase' = "exhale"
             \/ currentPhase = "exhale" /\ currentPhase' = "inhale"]_vars

\* A second hold of a session with hold: the whole cycle has been walked.
C3_Witness ==
    /\ isExerciseActive
    /\ settings.holdTime > 0
    /\ currentPhase = "hold"
    /\ remainingTime <= InitialRemainingTime(settings)
           - (settings.inhaleTime + settings.holdTime + settings.exhaleTime)
           - settings.inhaleTime

\* C4 (as claimed): a phase whose configured duration is 0 is never the
\* active phase of a mounted session.
C4_ZeroPhaseNeverActive ==
    isExerciseActive => PhaseDuration(settings, currentPhase) > 0

\* Once the countdown of r has reached 0, its end signal is either still
\* scheduled or has been delivered, once in all, and it is delivered only
\* when the whole grace delay has passed.
C5_OneSignal(r) ==
    LET pending == Cardinality({t \in r.timeouts : t.kind = "grace"}) IN
    /\ r.endSignals + pending = (IF r.sinceZero = None THEN 0 ELSE 1)
    /\ r.endSignals = 1 => r.sinceZero = Ms(1000)

\* C5: when the countdown reaches 0, exactly one end signal is delivered to
\* the host, only after the full grace delay has elapsed, whichever phase
\* was active at that moment.
C5_EndSignalAfterGrace == \A r \in Instances : C5_OneSignal(r)

\* With the timers running (FairSpec), the scheduled end signal is delivered.
C5_EventuallyDelivered ==
    (inst.sinceZero # None) ~> (inst.endSignals = 1)

\* The end signal of a countdown that reached 0 during hold has been delivered.
C5_Witness ==
    /\ ~isExerciseActive
    /\ inst.endSignals = 1
    /\ inst.zeroPhase = "hold"

C5_WitnessInhale == inst.endSignals = 1 /\ inst.zeroPhase = "inhale"
C5_WitnessExhale == inst.endSignals = 1 /\ inst.zeroPhase = "exhale"

\* C6 (as claimed): a hold or grace timeout pending at unmount is cancelled;
\* its callback never runs after the unmount.
C6_TimeoutsCancelledAtUnmount ==
    \A r \in Instances : r.late \cap {"hold", "grace"} = {}

C9_StoppedLeavesNoTimer ==
    ~isExerciseActive => \A r \in Instances : ~Pending(r)

\* C10: at most one animation step interval is active at any time.
C10_OneStepInterval ==
    \A r \in Instances : Cardinality(r.phaseIntervals) <= 1

\* The exhale interval has just been started by the phase change that the
\* last step of the inhale interval caused.
C10_Witness ==
    /\ isExerciseActive
    /\ currentPhase = "exhale"
    /\ scale = 1300
    /\ \E t \in inst.phaseIntervals : t.phase = "exhale" /\ t.step = 0

SameFields(a, b) == DOMAIN a = DOMAIN b /\ \A k \in DOMAIN a : a[k] = b[k]

\* C11: a form that mounts after saveFavorite(v) has favoriteMode equal to v
\* field by field; a form that mounts after clearFavorite has no favorite.
C11_FavoriteRoundTrip ==
    (~isExerciseActive /\ storage.readBack /\ storage.written # "foreign")
        => /\ formStatus = "mounted"
           /\ storage.written = "save" => SameFields(favoriteMode, storage.saved)
           /\ storage.written = "clear" => favoriteMode = Null

\* A favorite with a two-digit duration has been saved and read back by a
\* later mount of the form.
C11_Witness ==
    /\ formStatus = "mounted"
    /\ storage.readBack
    /\ storage.written = "save"
    /\ storage.saved.duration = MaxSliderDuration
    /\ favoriteMode = storage.saved

\* The favorite has been cleared and a later mount found none.
C11_WitnessCleared ==
    /\ formStatus = "mounted"
    /\ storage.readBack
    /\ storage.written = "clear"
    /\ favoriteMode = Null

\* The item holds a text that parses to an object with the four keys of a
\* Settings value.
StoredIsSettings(st) ==
    /\ st.has
    /\ st.text # <<>>
    /\ Parse(st.text) \notin {SyntaxError, Null}
    /\ DOMAIN Parse(st.text) = Keys

\* C12 (as claimed): a form that mounted while the stored record was missing
\* or was not a Settings value is mounted, without a favorite, and its
\* render raised no error.
C12_MalformedFavoriteIgnored ==
    (~isExerciseActive /\ storage.readBack /\ ~StoredIsSettings(storage))
        => /\ formStatus = "mounted"
           /\ favoriteMode = Null

\* The part of C12 that the code keeps: a missing item, an empty text and
\* the text null give a mounted form without a favorite.
C12_MissingFavoriteIgnored ==
    (~isExerciseActive /\ storage.readBack
        /\ (~storage.has \/ storage.text \in {<<>>, <<"null">>}))
        => /\ formStatus = "mounted"
           /\ favoriteMode = Null

\* C13 (as claimed): the settings of a running session, which are the
\* value the form gave to onStart, have inhaleTime, holdTime and exhaleTime
\* within 0..10 and duration within 1..20.
C13_StartedSettingsInRange ==
    isExerciseActive => InSliderRange(settings)

Second == Ms(1000)

\* The values remainingTime may have `a` after the mount of a session with
\* settings s: one tick per second, the tick due at this very instant done
\* or not yet done.
CountdownAt(s, a) ==
    LET full == InitialRemainingTime(s)
        done == a \div Second
        left(n) == IF n > full THEN 0 ELSE full - n
    IN  {left(done)} \cup
        (IF a > 0 /\ a % Second = 0 THEN {left(done - 1)} ELSE {})

\* The phases that may be active `a` after the mount of a session with
\* settings s, whose cycle is inhaleTime + holdTime + exhaleTime seconds
\* long; at the instant of a phase change, the phase before or after it.
PhasesAt(s, a) ==
    LET b1    == s.inhaleTime * Second
        b2    == b1 + s.holdTime * Second
        cycle == b2 + s.exhaleTime * Second
        pos   == a % cycle
        after == IF s.holdTime > 0 THEN "hold" ELSE "exhale"
    IN  IF pos = 0 THEN (IF a = 0 THEN {"inhale"} ELSE {"exhale", "inhale"})
        ELSE IF pos < b1 THEN {"inhale"}
        ELSE IF pos = b1 THEN {"inhale", after}
        ELSE IF pos < b2 THEN {"hold"}
        ELSE IF pos = b2 THEN {"hold", "exhale"}
        ELSE {"exhale"}

\* C14: whether each play attempt succeeds or is rejected, the phase and
\* the countdown of a mounted session are the same functions of the time
\* since its mount, and the end signal is delivered once, after the grace
\* delay.
C14_PlayFailureSwallowed ==
    /\ \A r \in Instances : C5_OneSignal(r)
    /\ isExerciseActive
          => /\ remainingTime \in CountdownAt(settings, inst.age)
             /\ currentPhase \in PhasesAt(settings, inst.age)

\* The end cue is never paused by the code: it was refused, and the end
\* signal has been delivered all the same.
C14_Witness ==
    /\ ~isExerciseActive
    /\ inst.endSignals = 1
    /\ ~inst.audio["end"].playing

\* The exhale cue was refused (it is silent during its own fade-in) and a
\* later phase of the same session has been reached.
C14_WitnessPhase ==
    /\ isExerciseActive
    /\ currentPhase = "exhale"
    /\ inst.fadeInterval.mode = "in" /\ inst.fadeInterval.cue = "exhale"
    /\ ~inst.audio["exhale"].playing
    /\ inst.age > (settings.inhaleTime + settings.holdTime) * Second

\* The cues of r that can be heard: playing, with a volume above 0.
Audible(r) == {c \in Cues : r.audio[c].playing /\ r.audio[c].volume > 0}

\* A fade of r is running or a delayed fadeOut is still to come.
InCrossfade(r) == r.fadeInterval.mode # "none" \/ KindPending(r, "fadeOut")

\* C15 (as claimed): two cues are audible together only during a crossfade,
\* while a fade is running or a delayed fade-out is pending.
C15_OneCueAudible ==
    \A r \in Instances : Cardinality(Audible(r)) > 1 => InCrossfade(r)

\* One step of a mounted session keeps the scale on its profile: 1.0 at the
\* start of inhale, rising to exactly 1.3 at its end, 1.3 throughout hold,
\* falling to exactly 1.0 at the end of exhale.
ScaleOnProfile ==
    LET samePhase == currentPhase' = currentPhase
        inRange   == scale' >= 1000 /\ scale' <= 1300
    IN  /\ (~isExerciseActive /\ isExerciseActive') => scale' = 1000
        /\ (isExerciseActive /\ isExerciseActive')
             => /\ (samePhase /\ currentPhase = "inhale")
                    => scale' >= scale /\ inRange
                /\ (samePhase /\ currentPhase = "hold")
                    => scale' = scale /\ scale = 1300
                /\ (samePhase /\ currentPhase = "exhale")
                    => scale' <= scale /\ inRange
                /\ (~samePhase /\ currentPhase = "inhale")
                    => inst'.endScale = 1300 /\ scale' = 1300
                /\ (~samePhase /\ currentPhase = "hold")
                    => scale' = scale /\ scale = 1300
                /\ (~samePhase /\ currentPhase = "exhale")
                    => inst'.endScale = 1000 /\ scale' = 1000

\* C16 (as claimed): in every session the scale rises monotonically from
\* 1.0 to 1.3 during inhale, stays at 1.3 during hold and falls
\* monotonically to 1.0 during exhale, exactly 1.3 at the end of inhale and
\* exactly 1.0 at the end of exhale.
C16_ScaleProfile == [][ScaleOnProfile]_vars

\* What the code keeps of C16: the profile of the sessions whose inhaleTime
\* and exhaleTime are both positive.
C16_PositiveScaleProfile ==
    [][(settings'.inhaleTime > 0 /\ settings'.exhaleTime > 0)
          => ScaleOnProfile]_vars

\* C17: the countdown of a mounted session has gone down by exactly 1 at
\* each of its ticks, it is never negative, it is 0 after exactly
\* duration * 60 ticks and not earlier, and at 0 its interval is cleared, so
\* that no further tick follows.
C17_CountdownByOne ==
    /\ remainingTime >= 0
    /\ isExerciseActive
          => /\ remainingTime = settings.duration * 60 - inst.ticks
             /\ remainingTime = 0 <=> inst.timer = None
    /\ \A k \in Slots : ~Live(k) => Get(k).timer = None

\* The countdown has just reached 0: the last tick was tick duration * 60.
C17_Witness ==
    /\ isExerciseActive
    /\ remainingTime = 0
    /\ inst.ticks = settings.duration * 60
    /\ inst.sinceZero = 0

\* A step that changes the phase of a mounted session ends the phase at its
\* configured length: an inhale or exhale with the last of its
\* PhaseDuration * 30 steps, a hold with its single timeout.
PhaseEndsOnTime ==
    (isExerciseActive /\ isExerciseActive' /\ currentPhase' # currentPhase)
        => IF currentPhase = "hold"
           THEN /\ KindPending(inst, "hold")
                /\ ~KindPending(inst', "hold")
           ELSE \E t \in inst.phaseIntervals :
                    /\ t.phase = currentPhase
                    /\ t.rem = 0
                    /\ t.steps = PhaseDuration(settings, currentPhase) * 30
                    /\ t.step + 1 = t.steps

\* C18 (as claimed): in every session the phase is the one that a cycle of
\* inhaleTime + holdTime + exhaleTime seconds gives for the time since the
\* mount, and each inhale and exhale ends with step PhaseDuration * 30 of
\* its animation, each hold with its timeout.
C18_CycleLength ==
    /\ [](isExerciseActive => currentPhase \in PhasesAt(settings, inst.age))
    /\ [][PhaseEndsOnTime]_vars

\* What the code keeps of C18: the same for the sessions whose inhaleTime
\* and exhaleTime are both positive.
C18_PositiveCycleLength ==
    /\ []((isExerciseActive /\ settings.inhaleTime > 0 /\ settings.exhaleTime > 0)
            => currentPhase \in PhasesAt(settings, inst.age))
    /\ [][(settings.inhaleTime > 0 /\ settings.exhaleTime > 0)
            => PhaseEndsOnTime]_vars

\* C19: while a session is active the settings are the value that
\* startExercise was given when the session began, and a step changes the
\* settings only while no session is active and the setup form is shown.
C19_SettingsImmutable ==
    /\ [](isExerciseActive => settings = inst.props)
    /\ [][settings' # settings
            => (~isExerciseActive /\ formStatus = "mounted")]_vars

\* A session started with settings other than the defaults has been running
\* for some ticks, through a phase change.
C19_Witness ==
    /\ isExerciseActive
    /\ settings # DefaultSettings
    /\ settings = inst.props
    /\ inst.ticks > 0
    /\ currentPhase # "inhale"

\* C20 (as claimed): no fade callback runs after the unmount, and no
\* delayed fadeOut scheduled before a phase change runs after it: neither a
\* step of a fade interval nor a delayed fadeOut changes the audio or starts
\* a fade interval then.
C20_NoStaleFadeCallbacks ==
    \A r \in Instances : r.late \cap {"fadeOut", "fade", "fadeOutStale"} = {}

\* The stale callback after a phase change alone: a delayed fadeOut that
\* fades out the cue of the phase that is active when it runs.
C20_NoStaleFadeOutInPhase ==
    \A r \in Instances : "fadeOutStale" \notin r.late

(***************************************************************************)
(* C21, C22: fades run to their last step.                                 *)
(***************************************************************************)
\* The fade-out running in r either goes on in r2 or has made its last
\* step: the cue paused, rewound and back at full volume.
FadeOutGoesOn(r, r2) ==
    LET f == r.fadeInterval
        g == r2.fadeInterval
    IN  \/ g.mode = "out" /\ g.cue = f.cue /\ g.step >= f.step
        \/ /\ g.mode = "none"
           /\ f.step = FadeSteps - 1
           /\ r2.audio[f.cue] =
                  [playing |-> FALSE, volume |-> FadeSteps, rewound |-> TRUE]

\* C21: every fade-out that is started completes: while the session stays
\* mounted, no step ends a running fade-out other than its own last
\* callback, which leaves the cue paused, rewound and at full volume.
C21_FadeOutCompletes ==
    [][(isExerciseActive /\ isExerciseActive' /\ inst.fadeInterval.mode = "out")
          => FadeOutGoesOn(inst, inst')]_vars

\* C21, the case the claim names: a cue is not left playing at partial
\* volume with no fade running and no delayed fade-out pending for it.
C21_NoCueLeftPartial ==
    isExerciseActive =>
        \A c \in {"inhale", "exhale"} :
            (inst.audio[c].playing /\ inst.audio[c].volume < FadeSteps)
                => \/ inst.fadeInterval.mode # "none"
                   \/ \E t \in inst.timeouts : t.kind = "fadeOut" /\ t.cue = c

\* C22: the fade-in of the mounted session is never replaced by the delayed
\* fade-out of the other cue before its last step.
C22_FadeInCompletes ==
    [][(/\ isExerciseActive /\ isExerciseActive'
        /\ inst.fadeInterval.mode = "in"
        /\ \E t \in inst.timeouts : t.kind = "fadeOut" /\ t.rem = 0
                                      /\ t \notin inst'.timeouts)
          => inst'.fadeInterval.mode # "out"]_vars

\* C22, the outcome: a cue that plays with no fade running on the handle
\* and none pending is at full volume.
C22_PlayingCueAtFull ==
    isExerciseActive =>
        \A c \in {"inhale", "exhale"} :
            (/\ inst.audio[c].playing
             /\ inst.fadeInterval.mode = "none"
             /\ ~ \E t \in inst.timeouts : t.kind = "fadeOut")
                => inst.audio[c].volume = FadeSteps

\* Sessions whose inhale and exhale phases have positive length.
PositivePhases == settings.inhaleTime > 0 /\ settings.exhaleTime > 0

\* C21 for sessions without a phase of length 0.
C21_PositiveFadeOutCompletes ==
    [][(/\ isExerciseActive /\ isExerciseActive' /\ PositivePhases
        /\ inst.fadeInterval.mode = "out")
          => FadeOutGoesOn(inst, inst')]_vars

\* C22 for sessions without a phase of length 0.
C22_PositiveFadeInCompletes ==
    [][(/\ isExerciseActive /\ isExerciseActive' /\ PositivePhases
        /\ inst.fadeInterval.mode = "in"
        /\ \E t \in inst.timeouts : t.kind = "fadeOut" /\ t.rem = 0
                                      /\ t \notin inst'.timeouts)
          => inst'.fadeInterval.mode # "out"]_vars

(***************************************************************************)
(* C23: the phase countdown.                                               *)
(***************************************************************************)
\* Nominal duration of the active phase, read off the settings.
NominalDuration ==
    CASE currentPhase = "inhale" -> settings.inhaleTime
      [] currentPhase = "hold"   -> settings.holdTime
      [] currentPhase = "exhale" -> settings.exhaleTime

\* A step in which the phase timer of the mounted session ticks.
PhaseTick ==
    /\ isExerciseActive /\ isExerciseActive'
    /\ currentPhase' = currentPhase
    /\ inst.phaseTimer = 0
    /\ inst'.phaseTimer # 0

\* A step that enters a phase: the mount, or a change of phase.
PhaseEntry ==
    /\ isExerciseActive'
    /\ ~isExerciseActive \/ currentPhase' # currentPhase

CountdownTicked ==
    /\ isExerciseActive /\ isExerciseActive'
    /\ inst'.ticks = inst.ticks + 1

\* What a countdown tick does to the instance: it re-arms the interval, or
\* at zero clears it, starts the end cue and schedules the grace timeout.
CountdownTickEffect ==
    IF remainingTime <= 1
    THEN /\ inst'.timer = None
         /\ inst'.audio["end"].playing
         /\ inst'.timeouts = inst.timeouts \cup
                {[kind |-> "grace", cue |-> "none", rem |-> Ms(GraceDelayMs)]}
    ELSE /\ inst'.timer = Ms(CountdownPeriodMs)
         /\ inst'.timeouts = inst.timeouts
         /\ inst'.audio = inst.audio

\* The callback that ends the active phase is due, and the phase change of
\* this step is the one it makes: the last step of the inhale or exhale
\* animation, or the hold timeout.
PhaseEndCallback ==
    IF currentPhase = "hold"
    THEN \E t \in inst.timeouts :
            t.kind = "hold" /\ t.rem = 0 /\ t \notin inst'.timeouts
    ELSE \E t \in inst.phaseIntervals :
            /\ t.phase = currentPhase
            /\ t.rem = 0
            /\ t.step + 1 >= t.steps
            /\ inst'.endScale = Scale(currentPhase, t.step + 1, t.steps)

\* C24: a session-countdown tick changes only remainingTime (and at zero
\* starts the end cue and the grace timeout), a phase-countdown tick changes
\* only phaseTimeLeft; both leave currentPhase and scale unchanged, and
\* currentPhase changes only by the last animation step of inhale or exhale
\* or by the hold timeout.
C24_TicksDoNotDrivePhases ==
    /\ [][CountdownTicked =>
            /\ UNCHANGED <<currentPhase, scale, phaseTimeLeft>>
            /\ remainingTime' = IF remainingTime <= 1 THEN 0 ELSE remainingTime - 1
            /\ inst'.phaseIntervals = inst.phaseIntervals
            /\ inst'.phaseTimer = inst.phaseTimer
            /\ inst'.fadeInterval = inst.fadeInterval
            /\ CountdownTickEffect]_vars
    /\ [][PhaseTick =>
            /\ UNCHANGED <<scale, remainingTime>>
            /\ inst' = [inst EXCEPT !.phaseTimer = inst'.phaseTimer]]_vars
    /\ [][(isExerciseActive /\ isExerciseActive' /\ currentPhase' # currentPhase)
            => PhaseEndCallback]_vars

\* Both timers have ticked in the first second of a session and the phase
\* is still the first inhale.
C24_Witness ==
    /\ isExerciseActive
    /\ inst.ticks = 1
    /\ inst.phaseTimer = None
    /\ inst.age = Ms(CountdownPeriodMs)
    /\ currentPhase = "inhale"
    /\ settings.inhaleTime > 0

(***************************************************************************)
(* C25: the phase machine has no terminal state.                           *)
(***************************************************************************)
\* The phase that follows p in the cycle.
Successor(p) ==
    CASE p = "inhale" -> IF settings.holdTime > 0 THEN "hold" ELSE "exhale"
      [] p = "hold"   -> "exhale"
      [] p = "exhale" -> "inhale"

\* The callback that will end the active phase is scheduled: the step
\* interval of the inhale or exhale animation, or the hold timeout.
PhaseEndScheduled ==
    IF currentPhase = "hold"
    THEN \E t \in inst.timeouts : t.kind = "hold"
    ELSE \E t \in inst.phaseIntervals : t.phase = currentPhase

\* C25: while the session is mounted, the callback that ends the active
\* phase is always scheduled, a phase is left only for its successor, and
\* with the timers running every phase entered is left for its successor
\* unless the session is unmounted first; remainingTime plays no part, so
\* this covers the phases entered after it has reached 0.
C25_NoTerminalPhase ==
    /\ [](isExerciseActive => PhaseEndScheduled)
    /\ [][(isExerciseActive /\ isExerciseActive' /\ currentPhase' # currentPhase)
            => currentPhase' = Successor(currentPhase)]_vars
    /\ \A p \in Phases :
          (isExerciseActive /\ currentPhase = p)
              ~> (~isExerciseActive \/ currentPhase = Successor(p))

\* A phase has been entered during the grace delay: the countdown is at 0
\* and the phase timer has just been started again.
C25_Witness ==
    /\ isExerciseActive
    /\ remainingTime = 0
    /\ inst.sinceZero # None
    /\ inst.sinceZero > 0
    /\ currentPhase = "hold"
    /\ inst.phaseTimer = Ms(PhaseTimerPeriodMs)

(***************************************************************************)
(* C26: every session ends.                                                *)
(***************************************************************************)
\* The host shows the setup form and no session is mounted.
SetupShown == ~isExerciseActive /\ formStatus = "mounted"

\* The timer that brings the mounted session to its end is scheduled: the
\* countdown interval while remainingTime > 0, the grace timeout after.
EndScheduled ==
    IF remainingTime > 0
    THEN inst.timer # None
    ELSE \E t \in inst.timeouts : t.kind = "grace"

\* C26: a mounted session always has the timer scheduled that brings it to
\* its end, and with the timers running every state with the session
\* active is followed by a state in which the session is unmounted and the
\* setup form is shown; the user is never required to press Stop.
C26_SessionEnds ==
    /\ [](isExerciseActive => EndScheduled)
    /\ isExerciseActive ~> SetupShown

\* A session was ended by the end signal of its own countdown, and the
\* setup form is shown again.
C26_Witness ==
    /\ SetupShown
    /\ inst.endSignals = 1
    /\ inst.sinceZero = Ms(GraceDelayMs)
    /\ inst.props # Null

(***************************************************************************)
(* C27: the range of scale.                                                *)
(***************************************************************************)
\* C27: in every state of a mounted session scale is a number from 1.0 to
\* 1.3 (in thousandths), whatever the settings, phases of length 0 included.
C27_ScaleInRange == isExerciseActive => (scale >= 1000 /\ scale <= 1300)

\* C27, the step count: no step interval of a mounted session has a step
\* count of 0.
C27_StepCountPositive ==
    isExerciseActive => \A t \in inst.phaseIntervals : t.steps > 0

\* C27 for sessions without a phase of length 0.
C27_PositiveScaleInRange ==
    (isExerciseActive /\ PositivePhases) => (scale >= 1000 /\ scale <= 1300)

(***************************************************************************)
(* SpecRestart: the session model in which the user may also start a new   *)
(* session while the end signal of the previous one is still scheduled     *)
(* (Stop pressed during the grace delay, then Start within the second).     *)
(***************************************************************************)
\* The longest time left on the pending onStop timeout at which the user
\* starts the next session, in time units.
MaxGraceLeft == 10

\* The timers of the previous session have run out, or the previous session
\* was unmounted during its grace delay and its onStop timeout is pending,
\* with at most MaxGraceLeft to go.
RestartGuard ==
    \/ Drained
    \/ /\ orphans = <<>>
       /\ \E t \in inst.timeouts : t.kind = "grace" /\ t.rem <= MaxGraceLeft

NextRestart ==
    \/ \E v \in PlaySettings : RestartGuard /\ StartExercise(v)
    \/ UserStop
    \/ \E k \in Slots : CountdownTick(k)
    \/ \E k \in Slots : PhaseTimerTick(k)
    \/ \E k \in Slots : \E t \in Get(k).phaseIntervals : AnimationStep(k, t)
    \/ \E k \in Slots : \E t \in Get(k).timeouts : HoldTimeout(k, t)
    \/ \E k \in Slots : \E t \in Get(k).timeouts : GraceTimeout(k, t)
    \/ \E k \in Slots : \E t \in Get(k).timeouts : FadeOutTimeout(k, t)
    \/ \E k \in Slots : FadeStep(k)
    \/ Advance

SpecRestart == Init /\ [][NextRestart]_vars

(***************************************************************************)
(* C28: end signals and later sessions.                                    *)
(***************************************************************************)
\* The step unmounts the session by its own end signal: its grace timeout
\* is due and its onStop call is counted.
EndedByOwnSignal ==
    /\ \E t \in inst.timeouts : t.kind = "grace" /\ t.rem = 0
    /\ inst'.endSignals = inst.endSignals + 1

\* The step unmounts the session by the Stop button: no callback of this
\* or of an earlier session runs in it.
EndedByUserStop ==
    /\ inst'.endSignals = inst.endSignals
    /\ orphans' = orphans

\* C28: a session is ended only by its own end signal or by a Stop pressed
\* during it, never by the onStop timeout of an earlier session.
C28_EndedOnlyByOwnSignal ==
    [][(isExerciseActive /\ ~isExerciseActive')
          => (EndedByOwnSignal \/ EndedByUserStop)]_vars

\* C28, seen from the earlier session: no onStop timeout of an unmounted
\* session is pending while a later session is mounted.
C28_NoForeignSignalPending ==
    isExerciseActive =>
        \A k \in 1..Len(orphans) :
            ~ \E t \in orphans[k].timeouts : t.kind = "grace"

(***************************************************************************)
(* C29: the favorite in memory and the favorite in the storage.            *)
(***************************************************************************)
\* C29 as stated: while the form is mounted favoriteMode is the value
\* persisted under the key, and it is null exactly when the key is absent.
C29_FavoriteMatchesStorage ==
    formStatus = "mounted" =>
        /\ favoriteMode = ReadFavorite(storage)
        /\ favoriteMode = Null <=> ~storage.has

\* C29, amended: while the form is mounted favoriteMode is the value the
\* initializer reads from the storage; it is null exactly when the key is
\* absent or holds the empty text or the text null; once the form has
\* written or removed the item, it is null exactly when the key is absent,
\* and the one item under the key is the text of favoriteMode.
C29_FavoriteMatchesWrittenStorage ==
    formStatus = "mounted" =>
        /\ favoriteMode = ReadFavorite(storage)
        /\ favoriteMode = Null <=>
               (~storage.has \/ storage.text \in {<<>>, <<"null">>})
        /\ storage.written # "foreign" =>
               /\ favoriteMode = Null <=> ~storage.has
               /\ storage.has => storage.text = Stringify(favoriteMode)

\* A favorite was saved by the form and the sliders or a preset have moved
\* the values away from it since.
C29_Witness ==
    /\ formStatus = "mounted"
    /\ storage.written = "save"
    /\ favoriteMode = PRESET_MODES[2]
    /\ values = PRESET_MODES[1]

\* The favorite was cleared by the form.
C29_WitnessCleared ==
    /\ formStatus = "mounted"
    /\ storage.written = "clear"
    /\ favoriteMode = Null
    /\ values = PRESET_MODES[1]

(***************************************************************************)
(* C30: a favorite is not overwritten in place.                            *)
(***************************************************************************)
\* The key holds a preset: it is present and its text is neither empty nor
\* the text null.
HasFavorite(st) == st.has /\ st.text \notin {<<>>, <<"null">>}

\* The persisted item is the same before and after the step.
PersistedUnchanged == storage'.has = storage.has /\ storage'.text = storage.text

\* C30: no step replaces a persisted preset by a different one; the item is
\* written only while favoriteMode is null and no preset is persisted, so a
\* change of the persisted preset has a clearFavorite in between; steps
\* that set the form's values (applyFavorite, applyPreset, the sliders)
\* leave the persisted item unchanged.
C30_FavoriteNotOverwritten ==
    /\ [][(HasFavorite(storage) /\ HasFavorite(storage'))
            => storage'.text = storage.text]_vars
    /\ [][(storage'.has /\ storage'.text # storage.text)
            => /\ formStatus = "mounted"
               /\ favoriteMode = Null
               /\ ~HasFavorite(storage)]_vars
    /\ [][(formStatus = "mounted" /\ formStatus' = "mounted" /\ values' # values)
            => PersistedUnchanged]_vars

\* A favorite saved by the form exists and the form's values differ from
\* it: the favorite button now applies the favorite.
C30_Witness ==
    /\ formStatus = "mounted"
    /\ storage.written = "save"
    /\ storage.saved = PRESET_MODES[1]
    /\ favoriteMode = PRESET_MODES[1]
    /\ values = PRESET_MODES[2]

====
